---- MODULE Spec2Model ----
(***************************************************************************)
(* Model of src/src/scene.rs: a SceneStore (name -> SavedScene map plus a  *)
(* payload) and a SceneManager that owns one live Scene, forwards every    *)
(* EventHandler callback to it and switches scenes by unload/insert/       *)
(* lookup/load.                                                            *)
(*                                                                         *)
(* Scene and SavedScene are traits.  Their behaviour is modelled after the *)
(* implementation the repository ships (TestSavedScene / TestScene): a     *)
(* snapshot is a name and a value, load clones the snapshot into a live    *)
(* scene, unload clones the live scene's data back into a snapshot.  What  *)
(* a scene's own handlers do with its live data and which result they      *)
(* return is chosen by the environment.                                    *)
(***************************************************************************)
EXTENDS Integers, Sequences, FiniteSets, TLC

\* ---- bounds -------------------------------------------------------------
MaxNames == 2
MaxValue == 1

\* ---- value domains ------------------------------------------------------
AllNames == <<"A", "B", "C", "D", "E">>
Names    == {AllNames[i] : i \in 1..MaxNames}
Values   == 0..MaxValue
\* the elapsed times the host passes to update (std::time::Duration)
Durations == {16, 33}

\* the arguments the host passes to the callbacks: two distinct argument lists
\* per callback, differing in every position
\* (event::MouseButton, x, y)
ButtonArgs == {<<"Left", 3, 4>>, <<"Right", 4, 3>>}
\* (event::MouseState, x, y, xrel, yrel)
MotionArgs == {<<"NoButton", 3, 4, 1, 2>>, <<"LeftHeld", 4, 3, 2, 1>>}
\* (x, y)
WheelArgs  == {<<0, 1>>, <<1, 0>>}
\* (event::Keycode, event::Mod, repeat)
KeyArgs    == {<<"Space", "NOMOD", FALSE>>, <<"Escape", "LSHIFT", TRUE>>}
\* the payload T: the unit type of the repository's own use of the manager
Payloads   == {"unit"}

\* Option<String>
None    == <<>>
Some(x) == <<x>>

\* struct TestSavedScene { value, name }
SavedScenes == [name : Names, value : Values]

\* GameResult<()> and the other return values of the callbacks
Ok     == [tag |-> "Ok"]
Err(e) == [tag |-> "Err", err |-> e]
Unit   == [tag |-> "Unit"]
Bool(b) == [tag |-> "Bool", val |-> b]

\* the failures a scene's own update/draw may report
SceneErrors  == {[kind |-> "SceneError", code |-> c] : c \in {"E1", "E2"}}
SceneResults == {Ok} \cup {Err(e) : e \in SceneErrors}

\* format!("SceneManager: Asked to load scene {} but it did not exist?", scene_name)
NotFoundMsg(scene_name) ==
    <<"SceneManager: Asked to load scene ", scene_name, " but it did not exist?">>

\* ggez::GameError::ResourceNotFound(msg, vec![])
ResourceNotFound(scene_name) ==
    [kind |-> "ResourceNotFound", msg |-> NotFoundMsg(scene_name), paths |-> <<>>]

\* ---- state --------------------------------------------------------------
VARIABLES
    states,      \* SceneStore.states : BTreeMap<String, Box<SavedScene>>
    game_data,   \* SceneStore.game_data : T
    current,     \* SceneManager.current : Box<Scene>  (name, value)
    next_scene,  \* SceneManager.next_scene : Option<String>
    calls,       \* the calls the last operation made on scenes, snapshots and the map
    result,      \* the value the last operation returned to its caller
    lastOp,      \* the last operation called on the manager, with the arguments it received
    written      \* history: per name, the last write of its map entry (by whom, what)

vars == <<states, game_data, current, next_scene, calls, result, lastOp, written>>

\* ---- the traits ---------------------------------------------------------
\* SavedScene::name
SavedName(s) == s.name

\* SavedScene::load : Box::new(TestScene(self.clone()))
Load(s) == [name |-> s.name, value |-> s.value]

\* Scene::unload : Box::new(self.0.clone())
Unload(sc) == [name |-> sc.name, value |-> sc.value]

\* what a scene's own handler does to its live data
SceneStep(sc, v) == [sc EXCEPT !.value = v]

\* ---- the map ------------------------------------------------------------
\* BTreeMap::insert: the new value replaces the one stored under the key
Insert_KeepOld(m, k, v) == [x \in (DOMAIN m) \cup {k} |-> IF x \in DOMAIN m THEN m[x] ELSE v]

Insert(m, k, v) == [x \in (DOMAIN m) \cup {k} |-> IF x = k THEN v ELSE m[x]]

\* the entries of the log "calls".  A call on a scene names the heap object it
\* is made on: "current", the scene that was current when the operation began,
\* or "loaded", the scene the operation's load allocated.
CallUnload(sc)      == [m |-> "unload", obj |-> "current", name |-> sc.name, ret |-> Unload(sc)]
CallInsert(m, k, v) == [m |-> "insert", key |-> k, val |-> v, old |-> (k \in DOMAIN m)]
CallLoad(s)         == [m |-> "load", name |-> s.name, from |-> s, ret |-> "loaded"]
CallScene(m, obj, sc, args, ret) ==
    [m |-> m, obj |-> obj, name |-> sc.name, args |-> args, ret |-> ret]

\* the entries of the history "written"
Write(by, s) == Some([by |-> by, snap |-> s])

Op(op, args) == [op |-> op, args |-> args]

\* ---- SceneManager::switch_scene, as the functions of its effect --------
\* the map after "self.store.states.insert(old_scene_name, old_scene_state)"
SwitchInserted_KeepStale(m, cur) ==
    IF SavedName(Unload(cur)) \in DOMAIN m THEN m
    ELSE Insert(m, SavedName(Unload(cur)), Unload(cur))

SwitchInserted(m, cur) == Insert(m, SavedName(Unload(cur)), Unload(cur))

\* "if let Some(scene_state) = self.store.states.get_mut(scene_name)"
SwitchFound(m, cur, scene_name) == scene_name \in DOMAIN SwitchInserted(m, cur)

\* the map after the call: get_mut leaves the entry it finds in the map
SwitchStates_Take(m, cur, scene_name) ==
    [x \in (DOMAIN SwitchInserted(m, cur)) \ {scene_name} |-> SwitchInserted(m, cur)[x]]

\* the switch that puts the map back as it was when the lookup fails
SwitchStates_RollBack(m, cur, scene_name) ==
    IF SwitchFound(m, cur, scene_name) THEN SwitchInserted(m, cur) ELSE m

\* the switch whose load, through get_mut, resets the entry it loads from
SwitchStates_LoadResets(m, cur, scene_name) ==
    IF SwitchFound(m, cur, scene_name)
    THEN [SwitchInserted(m, cur) EXCEPT ![scene_name].value = 0]
    ELSE SwitchInserted(m, cur)

\* the switch that drops the outgoing scene's entry once the target is loaded
SwitchStates_DropOutgoing(m, cur, scene_name) ==
    IF SwitchFound(m, cur, scene_name) /\ scene_name # SavedName(Unload(cur))
    THEN [x \in (DOMAIN SwitchInserted(m, cur)) \ {SavedName(Unload(cur))} |->
            SwitchInserted(m, cur)[x]]
    ELSE SwitchInserted(m, cur)

SwitchStates(m, cur, scene_name) == SwitchInserted(m, cur)

\* self.current after the call
SwitchCurrent_Keep(m, cur, scene_name) == cur

\* the switch that looks the target up before it inserts the outgoing snapshot
SwitchCurrent_LookupFirst(m, cur, scene_name) ==
    IF scene_name \in DOMAIN m THEN Load(m[scene_name])
    ELSE IF SwitchFound(m, cur, scene_name) THEN Load(SwitchInserted(m, cur)[scene_name])
    ELSE cur

SwitchCurrent(m, cur, scene_name) ==
    IF SwitchFound(m, cur, scene_name)
    THEN Load(SwitchInserted(m, cur)[scene_name])
    ELSE cur

\* the value the call returns
SwitchResult_AlwaysOk(m, cur, scene_name) == Ok

SwitchResult(m, cur, scene_name) ==
    IF SwitchFound(m, cur, scene_name) THEN Ok ELSE Err(ResourceNotFound(scene_name))

\* the calls it makes, in order
SwitchCalls(m, cur, scene_name) ==
    <<CallUnload(cur), CallInsert(m, SavedName(Unload(cur)), Unload(cur))>>
    \o (IF SwitchFound(m, cur, scene_name)
        THEN <<CallLoad(SwitchInserted(m, cur)[scene_name])>>
        ELSE <<>>)

\* the history after the call: the outgoing scene's unload wrote its entry
SwitchWritten(w, cur) ==
    [w EXCEPT ![SavedName(Unload(cur))] = Write("unload", Unload(cur))]

\* ---- Init: SceneManager::new(starting_scene_state, game_data) ----------
\* the constructor that loads the starting scene and does not register its snapshot
Init_NoInsert ==
    \E s \in SavedScenes, t \in Payloads :
        /\ s.name = AllNames[1]
        /\ current = Load(s)
        /\ states = <<>>
        /\ game_data = t
        /\ next_scene = None
        /\ calls = <<CallLoad(s)>>
        /\ result = Unit
        /\ lastOp = Op("new", <<s, t>>)
        /\ written = [n \in Names |-> None]

Init ==
    \E s \in SavedScenes, t \in Payloads :
        /\ s.name = AllNames[1]
        /\ current = Load(s)
        /\ states = Insert(<<>>, SavedName(s), s)
        /\ game_data = t
        /\ next_scene = None
        /\ calls = <<CallLoad(s), CallInsert(<<>>, SavedName(s), s)>>
        /\ result = Unit
        /\ lastOp = Op("new", <<s, t>>)
        /\ written = [n \in Names |-> IF n = SavedName(s) THEN Write("new", s) ELSE None]

\* ---- SceneStore::add ----------------------------------------------------
\* the add that stores the snapshot under the current scene's name
add_UnderCurrentName(scene_state) ==
    /\ states' = Insert(states, current.name, scene_state)
    /\ calls' = <<CallInsert(states, current.name, scene_state)>>
    /\ result' = Unit
    /\ lastOp' = Op("add", <<scene_state>>)
    /\ written' = [written EXCEPT ![current.name] = Write("add", scene_state)]
    /\ UNCHANGED <<game_data, current, next_scene>>

add(scene_state) ==
    /\ states' = Insert(states, SavedName(scene_state), scene_state)
    /\ calls' = <<CallInsert(states, SavedName(scene_state), scene_state)>>
    /\ result' = Unit
    /\ lastOp' = Op("add", <<scene_state>>)
    /\ written' = [written EXCEPT ![SavedName(scene_state)] = Write("add", scene_state)]
    /\ UNCHANGED <<game_data, current, next_scene>>

\* ---- recording a switch request (next_scene = Some(name)) ---------------
request_switch(scene_name) ==
    /\ next_scene' = Some(scene_name)
    /\ calls' = <<>>
    /\ result' = Unit
    /\ lastOp' = Op("request_switch", <<scene_name>>)
    /\ UNCHANGED <<states, game_data, current, written>>

\* ---- SceneManager::switch_scene -----------------------------------------
switch_scene(scene_name) ==
    /\ states' = SwitchStates(states, current, scene_name)
    /\ current' = SwitchCurrent(states, current, scene_name)
    /\ result' = SwitchResult(states, current, scene_name)
    /\ calls' = SwitchCalls(states, current, scene_name)
    /\ lastOp' = Op("switch_scene", <<scene_name>>)
    /\ written' = SwitchWritten(written, current)
    /\ UNCHANGED <<game_data, next_scene>>

\* ---- EventHandler::update -----------------------------------------------
\* "if let Some(ref scene_name) = self.next_scene.clone()"
UpdateSwitches_Never == FALSE

UpdateSwitches == next_scene # None

\* "self.switch_scene(&scene_name)?" returns early
UpdateSwitchFails_Ignored == FALSE

UpdateSwitchFails ==
    UpdateSwitches /\ SwitchResult(states, current, next_scene[1]) # Ok

\* "self.current.update(ctx, dt)?; Ok(())": the scene's failure is returned, else Ok(())
UpdateResult_Swallow(r) == Ok

\* the update that reports every scene failure as the same generic failure
UpdateResult_Generic(r) ==
    IF r.tag = "Err" THEN Err([kind |-> "SceneError", code |-> "E1"]) ELSE Ok

UpdateResult(r) == IF r.tag = "Err" THEN Err(r.err) ELSE Ok

\* the update that forwards the frame tick before it executes the pending switch
update_ForwardFirst(dt) ==
    \E v \in Values, r \in SceneResults :
        LET cur0 == SceneStep(current, v)
        IN  /\ states' = IF UpdateSwitches
                         THEN SwitchStates(states, cur0, next_scene[1]) ELSE states
            /\ written' = IF UpdateSwitches
                          THEN SwitchWritten(written, cur0) ELSE written
            /\ current' = IF UpdateSwitches
                          THEN SwitchCurrent(states, cur0, next_scene[1]) ELSE cur0
            /\ calls' = <<CallScene("update", "current", current, <<dt>>, r)>>
                        \o (IF UpdateSwitches
                            THEN SwitchCalls(states, cur0, next_scene[1]) ELSE <<>>)
            /\ result' = UpdateResult(r)
            /\ lastOp' = Op("update", <<dt>>)
            /\ UNCHANGED <<game_data, next_scene>>

update(dt) ==
    \E v \in Values, r \in SceneResults :
        LET cur1 == IF UpdateSwitches
                    THEN SwitchCurrent(states, current, next_scene[1])
                    ELSE current
            obj  == IF UpdateSwitches THEN "loaded" ELSE "current"
            pre  == IF UpdateSwitches
                    THEN SwitchCalls(states, current, next_scene[1])
                    ELSE <<>>
        IN  /\ states' = IF UpdateSwitches
                         THEN SwitchStates(states, current, next_scene[1]) ELSE states
            /\ written' = IF UpdateSwitches
                          THEN SwitchWritten(written, current) ELSE written
            /\ IF UpdateSwitchFails
               THEN /\ current' = cur1
                    /\ calls' = pre
                    /\ result' = SwitchResult(states, current, next_scene[1])
               ELSE /\ current' = SceneStep(cur1, v)
                    /\ calls' = pre \o <<CallScene("update", obj, cur1, <<dt>>, r)>>
                    /\ result' = UpdateResult(r)
            /\ lastOp' = Op("update", <<dt>>)
            /\ UNCHANGED <<game_data, next_scene>>

\* ---- the forwarding callbacks -------------------------------------------
\* the manager's callback m is called with the arguments args
Received(m, args) == lastOp' = Op(m, args)

\* "self.current.m(args)": one call on the current scene, its value returned
Forward(m, args, v, ret) ==
    /\ current' = SceneStep(current, v)
    /\ calls' = <<CallScene(m, "current", current, args, ret)>>
    /\ result' = ret
    /\ UNCHANGED <<states, game_data, next_scene, written>>

draw ==
    \E v \in Values, r \in SceneResults :
        Received("draw", <<>>) /\ Forward("draw", <<>>, v, r)

mouse_button_down_event(button, x, y) ==
    \E v \in Values :
        /\ Received("mouse_button_down_event", <<button, x, y>>)
        /\ Forward("mouse_button_down_event", <<button, x, y>>, v, Unit)

mouse_button_up_event(button, x, y) ==
    \E v \in Values :
        /\ Received("mouse_button_up_event", <<button, x, y>>)
        /\ Forward("mouse_button_up_event", <<button, x, y>>, v, Unit)

mouse_motion_event(_state, _x, _y, _xrel, _yrel) ==
    \E v \in Values :
        /\ Received("mouse_motion_event", <<_state, _x, _y, _xrel, _yrel>>)
        /\ Forward("mouse_motion_event", <<_state, _x, _y, _xrel, _yrel>>, v, Unit)

mouse_wheel_event(_x, _y) ==
    \E v \in Values :
        /\ Received("mouse_wheel_event", <<_x, _y>>)
        /\ Forward("mouse_wheel_event", <<_x, _y>>, v, Unit)

key_down_event(_keycode, _keymod, _repeat) ==
    \E v \in Values :
        /\ Received("key_down_event", <<_keycode, _keymod, _repeat>>)
        /\ Forward("key_down_event", <<_keycode, _keymod, _repeat>>, v, Unit)

key_up_event(_keycode, _keymod, _repeat) ==
    \E v \in Values :
        /\ Received("key_up_event", <<_keycode, _keymod, _repeat>>)
        /\ Forward("key_up_event", <<_keycode, _keymod, _repeat>>, v, Unit)

focus_event(_gained) ==
    \E v \in Values :
        /\ Received("focus_event", <<_gained>>)
        /\ Forward("focus_event", <<_gained>>, v, Unit)

\* the quit_event that drops the scene's veto
quit_event_NoVeto ==
    \E v \in Values, veto \in BOOLEAN :
        /\ Received("quit_event", <<>>)
        /\ current' = SceneStep(current, v)
        /\ calls' = <<CallScene("quit_event", "current", current, <<>>, Bool(veto))>>
        /\ result' = Bool(FALSE)
        /\ UNCHANGED <<states, game_data, next_scene, written>>

quit_event ==
    \E v \in Values, veto \in BOOLEAN :
        /\ Received("quit_event", <<>>)
        /\ Forward("quit_event", <<>>, v, Bool(veto))

\* ---- the specification --------------------------------------------------
Next ==
    \/ \E s \in SavedScenes : add(s)
    \/ \E n \in Names : request_switch(n)
    \/ \E n \in Names : switch_scene(n)
    \/ \E dt \in Durations : update(dt)
    \/ draw
    \/ \E a \in ButtonArgs : mouse_button_down_event(a[1], a[2], a[3])
    \/ \E a \in ButtonArgs : mouse_button_up_event(a[1], a[2], a[3])
    \/ \E a \in MotionArgs : mouse_motion_event(a[1], a[2], a[3], a[4], a[5])
    \/ \E a \in WheelArgs : mouse_wheel_event(a[1], a[2])
    \/ \E a \in KeyArgs : key_down_event(a[1], a[2], a[3])
    \/ \E a \in KeyArgs : key_up_event(a[1], a[2], a[3])
    \/ \E g \in BOOLEAN : focus_event(g)
    \/ quit_event

Spec == Init /\ [][Next]_vars

\* ---- helpers of the properties ------------------------------------------
IsNotFound(r) == r.tag = "Err" /\ r.err.kind = "ResourceNotFound"

CountCalls(cs, m) == Cardinality({i \in 1..Len(cs) : cs[i].m = m})

HasCall(cs, m) == CountCalls(cs, m) > 0

ForwardOps ==
    {"draw", "mouse_button_down_event", "mouse_button_up_event", "mouse_motion_event",
     "mouse_wheel_event", "key_down_event", "key_up_event", "focus_event", "quit_event"}

\* ---- C1 -----------------------------------------------------------------
\* C1: in every reachable state, switch_scene(X) for a name X that is neither a
\* key of the store nor the name the current scene's unload reports returns the
\* scene-not-found error carrying X, and in the state it returns in the
\* manager's operations are enabled.
C1_NotFoundCarriesName ==
    /\ [][\A x \in Names :
            (/\ lastOp'.op = "switch_scene" /\ lastOp'.args[1] = x
             /\ x \notin DOMAIN states
             /\ x # SavedName(Unload(current)))
            => (/\ IsNotFound(result')
                /\ result'.err.msg[2] = x
                /\ result' = Err(ResourceNotFound(x)))]_vars
    /\ [](IsNotFound(result) => ENABLED Next)

C1_Witness ==
    /\ lastOp.op = "switch_scene"
    /\ lastOp.args[1] \notin DOMAIN states
    /\ lastOp.args[1] # current.name
    /\ result = Err(ResourceNotFound(lastOp.args[1]))
    /\ ENABLED Next

\* ---- C2 -----------------------------------------------------------------
\* C2: when the current scene is A and B # A has an entry in the store,
\* switch_scene(B) returns Ok and the current scene is then a fresh scene loaded
\* from B's stored snapshot: its unload reports name B.
C2_SwitchLoadsTarget ==
    [][\A b \in Names :
          (/\ lastOp'.op = "switch_scene" /\ lastOp'.args[1] = b
           /\ b # current.name
           /\ b \in DOMAIN states)
          => (/\ result' = Ok
              /\ SavedName(Unload(current')) = b
              /\ Unload(current') = states[b]
              /\ calls'[Len(calls')] = CallLoad(states[b]))]_vars

C2_Witness ==
    /\ lastOp.op = "switch_scene"
    /\ result = Ok
    /\ calls[1].name = AllNames[1]
    /\ current.name = lastOp.args[1]
    /\ current.name # AllNames[1]
    /\ written[current.name] # None
    /\ written[current.name][1].by = "add"
    /\ Unload(current) = written[current.name][1].snap

\* ---- C3 -----------------------------------------------------------------
\* C3: round trip.  When the last write of A's entry was A's own unload (A was
\* switched away from and no add replaced its entry since), switch_scene(A)
\* from another scene returns Ok and the current scene's unload yields name A
\* and the very snapshot that unload produced, whatever was dispatched to the
\* other scene in between and whatever A's entry had been before.
C3_RoundTrip ==
    [][\A a \in Names :
          (/\ lastOp'.op = "switch_scene" /\ lastOp'.args[1] = a
           /\ a # current.name
           /\ written[a] # None
           /\ written[a][1].by = "unload")
          => (/\ result' = Ok
              /\ SavedName(Unload(current')) = a
              /\ Unload(current') = written[a][1].snap)]_vars

C3_Witness ==
    /\ lastOp.op = "switch_scene" /\ lastOp.args[1] = AllNames[1]
    /\ result = Ok
    /\ calls[1].name # AllNames[1]
    /\ calls[1].ret.value = 0
    /\ written[AllNames[1]] = Write("unload", Unload(current))
    /\ current.value = MaxValue
    /\ current.name = AllNames[1]

C5_AsStated == SavedName(Unload(current)) \notin DOMAIN states

\* C5 (amended): in every reachable state the current scene's name is a key of
\* the store: the entry a scene is loaded from stays in the map and is
\* overwritten at the scene's next unload.
C5_CurrentIsStored == SavedName(Unload(current)) \in DOMAIN states

C5_Witness ==
    /\ lastOp.op = "switch_scene"
    /\ result = Ok
    /\ HasCall(calls, "load")
    /\ current.name # AllNames[1]
    /\ current.name \in DOMAIN states

\* ---- C6 -----------------------------------------------------------------
\* C6: whenever update or switch_scene has executed a switch successfully (it
\* loaded a scene), the pending marker is none afterwards.
C6_MarkerCleared ==
    (lastOp.op \in {"update", "switch_scene"} /\ HasCall(calls, "load"))
    => next_scene = None

\* ---- C7 -----------------------------------------------------------------
\* C7: an update called with a pending request for a name that resolves makes
\* its calls in this order: unload of the outgoing scene, insert, load of the
\* target, update of the scene just loaded; the outgoing scene receives no
\* update, and the scene that received it is the current one afterwards.
C7_SwitchBeforeUpdate ==
    [][(/\ lastOp'.op = "update"
        /\ next_scene # None
        /\ next_scene[1] \in (DOMAIN states) \cup {current.name})
       => (/\ Len(calls') = 4
           /\ calls'[1].m = "unload" /\ calls'[1].obj = "current"
           /\ calls'[1].name = current.name
           /\ calls'[2].m = "insert"
           /\ calls'[3].m = "load" /\ calls'[3].name = next_scene[1]
           /\ calls'[4].m = "update"
           /\ calls'[4].obj = calls'[3].ret
           /\ calls'[4].obj # calls'[1].obj
           /\ calls'[4].name = next_scene[1]
           /\ calls'[4].args = lastOp'.args
           /\ current'.name = next_scene[1])]_vars

C7_Witness ==
    /\ lastOp.op = "update"
    /\ next_scene # None
    /\ Len(calls) = 4
    /\ calls[1].m = "unload"
    /\ calls[1].name # next_scene[1]
    /\ calls[3].m = "load"
    /\ calls[4].m = "update"
    /\ calls[4].name = next_scene[1]
    /\ current.name = next_scene[1]

\* ---- C8 -----------------------------------------------------------------
\* C8: an update that follows an update which failed with scene-not-found (no
\* request recorded and no scene added in between) does not attempt the switch
\* again: it does not unload the current scene and does not fail with
\* scene-not-found.
C8_NotRetried ==
    [][(/\ lastOp.op = "update"
        /\ IsNotFound(result)
        /\ lastOp'.op = "update")
       => (~HasCall(calls', "unload") /\ ~IsNotFound(result'))]_vars

\* ---- C9 -----------------------------------------------------------------
\* C9: each draw, input, focus and quit callback makes exactly one call, of the
\* same method with the arguments it received, on the scene that is current
\* when it is called; which scene is current, the store and the pending marker
\* are unchanged; the callback returns what that call returned (for quit_event
\* the scene's veto).
C9_ForwardedOnce ==
    [][lastOp'.op \in ForwardOps
       => (/\ Len(calls') = 1
           /\ calls'[1].m = lastOp'.op
           /\ calls'[1].args = lastOp'.args
           /\ calls'[1].obj = "current"
           /\ calls'[1].name = current.name
           /\ current'.name = current.name
           /\ states' = states
           /\ next_scene' = next_scene
           /\ result' = calls'[1].ret)]_vars

C9_Witness ==
    /\ lastOp.op = "quit_event"
    /\ result = Bool(TRUE)
    /\ calls = <<CallScene("quit_event", "current", current, <<>>, Bool(TRUE))>>
    /\ current.value = MaxValue
    /\ current.name # AllNames[1]
    /\ next_scene # None

\* ---- C10 ----------------------------------------------------------------
\* C10: when the scene's update (resp. draw) reports a failure, the manager's
\* update (resp. draw) returns that failure, calls the scene once, and leaves
\* the pending marker, the store and the current scene as they are without the
\* failure: unchanged for draw and for update with no pending request, and as
\* the switch left them for update with a pending request.
C10_FailurePropagated ==
    [][(/\ lastOp'.op \in {"update", "draw"}
        /\ calls' # <<>>
        /\ calls'[Len(calls')].m = lastOp'.op
        /\ calls'[Len(calls')].ret.tag = "Err")
       => (/\ result' = calls'[Len(calls')].ret
           /\ CountCalls(calls', lastOp'.op) = 1
           /\ next_scene' = next_scene
           /\ current'.name = calls'[Len(calls')].name
           /\ IF lastOp'.op = "update" /\ next_scene # None
              THEN /\ states' = [x \in (DOMAIN states) \cup {current.name} |->
                                    IF x = current.name THEN Unload(current) ELSE states[x]]
                   /\ calls'[Len(calls')].obj = "loaded"
                   /\ current'.name = next_scene[1]
              ELSE /\ states' = states
                   /\ calls'[Len(calls')].obj = "current"
                   /\ current'.name = current.name)]_vars

C10_Witness ==
    /\ lastOp.op = "update"
    /\ result \in {Err(e) : e \in SceneErrors}
    /\ Len(calls) = 1
    /\ calls[1].m = "update"
    /\ calls[1].ret = result
    /\ next_scene = None

\* ---- C11 ----------------------------------------------------------------
\* C11: SceneManager::new(initial, T) yields a manager whose current scene is
\* the one loaded from the initial snapshot, whose store holds exactly one
\* entry, the initial snapshot under its own name, whose payload is T and whose
\* pending marker is none; and as long as the entry written by new is in place
\* (no transition and no add under that name yet), switch_scene(initial name)
\* returns Ok and leaves a current scene with the initial name.
C11_Construction ==
    /\ [](lastOp.op = "new"
          => (/\ current = Load(lastOp.args[1])
              /\ SavedName(Unload(current)) = lastOp.args[1].name
              /\ DOMAIN states = {lastOp.args[1].name}
              /\ states[lastOp.args[1].name] = lastOp.args[1]
              /\ game_data = lastOp.args[2]
              /\ next_scene = None))
    /\ [][\A n \in Names :
            (/\ lastOp'.op = "switch_scene" /\ lastOp'.args[1] = n
             /\ written[n] # None
             /\ written[n][1].by = "new")
            => (/\ result' = Ok
                /\ SavedName(Unload(current')) = n)]_vars

C11_Witness ==
    /\ lastOp.op = "new"
    /\ lastOp.args[1] = [name |-> AllNames[1], value |-> MaxValue]
    /\ current = Load(lastOp.args[1])
    /\ states = [n \in {AllNames[1]} |-> lastOp.args[1]]
    /\ game_data \in Payloads
    /\ next_scene = None

\* ---- C12 ----------------------------------------------------------------
\* C12: recording a request overwrites the marker with the requested name, and
\* an update called with the marker set attempts the switch to exactly that
\* name: it unloads the current scene, loads no scene of another name, loads
\* the named one if it resolves and otherwise fails with scene-not-found for
\* that name.
C12_LastRequestExecuted ==
    /\ [][lastOp'.op = "request_switch"
          => next_scene' = Some(lastOp'.args[1])]_vars
    /\ [][(lastOp'.op = "update" /\ next_scene # None)
          => (/\ Len(calls') >= 2
              /\ calls'[1].m = "unload"
              /\ CountCalls(calls', "load") <= 1
              /\ \A i \in 1..Len(calls') :
                    calls'[i].m = "load" => calls'[i].name = next_scene[1]
              /\ IF next_scene[1] \in (DOMAIN states) \cup {current.name}
                 THEN HasCall(calls', "load") /\ current'.name = next_scene[1]
                 ELSE result' = Err(ResourceNotFound(next_scene[1])))]_vars

C12_Witness ==
    /\ lastOp.op = "update"
    /\ next_scene = Some(AllNames[1])
    /\ result = Ok
    /\ HasCall(calls, "load")
    /\ calls[1].m = "unload"
    /\ calls[1].name # AllNames[1]
    /\ calls[3].name = AllNames[1]
    /\ current.name = AllNames[1]

\* ---- C13 ----------------------------------------------------------------
\* C13: in every reachable state every key of the store was last written by
\* new (the initial scene), by add, or by the unload of a scene a switch
\* unloaded, holds the snapshot that write stored, and equals the name of the
\* snapshot stored under it.
C13_StoreMembership ==
    \A k \in DOMAIN states :
        /\ written[k] # None
        /\ written[k][1].by \in {"new", "add", "unload"}
        /\ written[k][1].snap = states[k]
        /\ states[k].name = k

C13_Witness ==
    /\ Cardinality(DOMAIN states) = MaxNames
    /\ written[AllNames[1]] # None
    /\ written[AllNames[1]][1].by = "add"
    /\ written[AllNames[2]] # None
    /\ written[AllNames[2]][1].by = "unload"
    /\ states[AllNames[2]].name = AllNames[2]

C15_SuccessfulSwitchEffect ==
    [][\A n \in Names :
          (lastOp'.op = "switch_scene" /\ lastOp'.args[1] = n /\ result' = Ok)
          => (/\ DOMAIN states' = (DOMAIN states) \cup {current.name}
              /\ states'[current.name] = Unload(current)
              /\ n \in DOMAIN states'
              /\ states'[n] = (IF n = current.name THEN Unload(current) ELSE states[n])
              /\ states'[n] = Unload(current')
              /\ \A k \in (DOMAIN states) \ {current.name} : states'[k] = states[k]
              /\ game_data' = game_data)]_vars

C15_Witness ==
    /\ lastOp.op = "switch_scene"
    /\ result = Ok
    /\ Len(calls) = 3
    /\ calls[1].name # lastOp.args[1]
    /\ calls[1].name \in DOMAIN states
    /\ states[calls[1].name] = calls[1].ret
    /\ lastOp.args[1] \in DOMAIN states
    /\ states[lastOp.args[1]] = calls[3].from
    /\ states[lastOp.args[1]].value = MaxValue

\* ---- C16 ----------------------------------------------------------------
\* C16: an update called with a pending request whose name does not resolve
\* returns the scene-not-found error for that name and calls no scene's
\* update; the current scene is left as it was.
C16_FailedSwitchSkipsUpdate ==
    [][(/\ lastOp'.op = "update"
        /\ next_scene # None
        /\ next_scene[1] \notin (DOMAIN states) \cup {current.name})
       => (/\ result' = Err(ResourceNotFound(next_scene[1]))
           /\ ~HasCall(calls', "update")
           /\ ~HasCall(calls', "load")
           /\ current' = current)]_vars

C16_Witness ==
    /\ lastOp.op = "update"
    /\ next_scene # None
    /\ result = Err(ResourceNotFound(next_scene[1]))
    /\ next_scene[1] \notin DOMAIN states
    /\ Len(calls) = 2
    /\ calls[1].m = "unload"
    /\ calls[2].m = "insert"

\* ---- C17 ----------------------------------------------------------------
\* C17: no step removes a key of the map; a name that was added or switched to
\* successfully is a key; and switch_scene on a key returns Ok.  So once
\* switch_scene(N) has succeeded or N has been added, every later
\* switch_scene(N) succeeds.
C17_KeysNeverShrink ==
    /\ [][(DOMAIN states) \subseteq (DOMAIN states')]_vars
    /\ [](lastOp.op = "add" => lastOp.args[1].name \in DOMAIN states)
    /\ []((lastOp.op = "switch_scene" /\ result = Ok) => lastOp.args[1] \in DOMAIN states)
    /\ [][\A n \in Names :
            (lastOp'.op = "switch_scene" /\ lastOp'.args[1] = n /\ n \in DOMAIN states)
            => result' = Ok]_vars

C17_Witness ==
    /\ lastOp.op = "switch_scene"
    /\ result = Ok
    /\ lastOp.args[1] # AllNames[1]
    /\ Cardinality(DOMAIN states) = MaxNames
    /\ written[lastOp.args[1]] # None
    /\ written[lastOp.args[1]][1].by = "unload"
    /\ calls[1].name # lastOp.args[1]

\* ---- C18 ----------------------------------------------------------------
\* C18: switch_scene called with the current scene's name returns Ok; the
\* scene it leaves current is loaded from the snapshot the outgoing scene's
\* unload just produced, so it has the same name and the same snapshot data.
C18_SelfSwitch ==
    [][(lastOp'.op = "switch_scene" /\ lastOp'.args[1] = current.name)
       => (/\ result' = Ok
           /\ Len(calls') = 3
           /\ calls'[1] = CallUnload(current)
           /\ calls'[3].m = "load"
           /\ calls'[3].from = calls'[1].ret
           /\ Unload(current') = Unload(current)
           /\ states'[current.name] = Unload(current))]_vars

C18_Witness ==
    /\ lastOp.op = "switch_scene"
    /\ result = Ok
    /\ Len(calls) = 3
    /\ calls[1].name = lastOp.args[1]
    /\ calls[3].from = calls[1].ret
    /\ current.name # AllNames[1]
    /\ current.value = MaxValue

\* ---- C19 ----------------------------------------------------------------
\* C19: an update called with the pending marker none makes exactly one call,
\* the update of the current scene with the elapsed time it received, makes no
\* unload, load or insert, leaves the map, the marker and which scene is
\* current unchanged, and returns what that call returned.
C19_UpdatePureForward ==
    [][(lastOp'.op = "update" /\ next_scene = None)
       => (/\ Len(calls') = 1
           /\ calls'[1].m = "update"
           /\ calls'[1].obj = "current"
           /\ calls'[1].name = current.name
           /\ calls'[1].args = lastOp'.args
           /\ result' = calls'[1].ret
           /\ states' = states
           /\ next_scene' = None
           /\ game_data' = game_data
           /\ current'.name = current.name)]_vars

C19_Witness ==
    /\ lastOp.op = "update"
    /\ next_scene = None
    /\ calls = <<CallScene("update", "current", current, lastOp.args, Ok)>>
    /\ result = Ok
    /\ current.name # AllNames[1]
    /\ current.value = MaxValue

====
